---- MODULE Spec2Model ----
(***************************************************************************)
(* A model of vafast-static (src/src/index.ts): staticPlugin builds either *)
(* one GET route per asset file (static mode) or one wildcard GET route    *)
(* whose handler resolves the file per request through three node-cache    *)
(* instances (dynamic mode).                                               *)
(*                                                                         *)
(* Strings are sequences of one-character strings, so that the substring,  *)
(* replace, split/join and percent-decoding steps of the code are computed *)
(* character by character.  Time is counted in hours.                      *)
(***************************************************************************)
EXTENDS Integers, Sequences, FiniteSets, TLC

VARIABLES opts, fs, pc, mode, routes, statCache, fileCache, htmlCache, now, req, resp, ops,
          composed, inflight

vars == <<opts, fs, pc, mode, routes, statCache, fileCache, htmlCache, now, req, resp, ops,
          composed, inflight>>

(***************************************************************************)
(* Bounds of the model.                                                    *)
(***************************************************************************)
\* node-cache maxKeys is 250 in the source; the model scales it down so that
\* a full cache is reachable with a handful of paths.
MaxKeys == 2
\* how many options of one staticPlugin call, alwaysStatic apart, differ from
\* DefaultOpts (an asset tree other than FSBase counts as one)
MaxNonDefault == 1
\* how many routes the host's composed collection may hold before it stops
\* calling staticPlugin
MaxComposed == 4
\* how many invocations of the wildcard handler run at the same time
MaxInflight == 2
\* how many hours the clock runs
MaxNow == 5
MaxDerived == 2

\* stdTTL: 3 * 60 * 60 seconds, in hours
stdTTL == 3

\* JavaScript undefined / an absent header
NONE == <<>>

(***************************************************************************)
(* JavaScript string primitives on character sequences.                    *)
(***************************************************************************)
SEP == "/"
URL_PATH_SEP == "/"

Slice(s, i, j) == SubSeq(s, i, j)

StartsWithAt(s, t, i) ==
    /\ i + Len(t) - 1 <= Len(s)
    /\ \A k \in 1..Len(t) : s[i + k - 1] = t[k]

\* String.prototype.includes
Includes(s, t) == \E i \in 1..(Len(s) + 1) : StartsWithAt(s, t, i)

\* String.prototype.endsWith
EndsWith(s, t) == Len(t) <= Len(s) /\ StartsWithAt(s, t, Len(s) - Len(t) + 1)

\* String.prototype.indexOf, 1-based; 0 when absent
Least(hits) == IF hits = {} THEN 0 ELSE CHOOSE i \in hits : \A j \in hits : i <= j
IndexOf(s, t) == Least({i \in 1..(Len(s) + 1) : StartsWithAt(s, t, i)})

\* String.prototype.replace with a string pattern: the first occurrence only
ReplaceAt(s, t, r, i) ==
    IF i = 0 THEN s
    ELSE Slice(s, 1, i - 1) \o r \o Slice(s, i + Len(t), Len(s))
ReplaceFirst(s, t, r) == ReplaceAt(s, t, r, IndexOf(s, t))

\* String.prototype.split on a one-character separator
RECURSIVE Split(_, _)
SplitAt(s, c, i) ==
    IF i = 0 THEN <<s>>
    ELSE <<Slice(s, 1, i - 1)>> \o Split(Slice(s, i + 1, Len(s)), c)
Split(s, c) == SplitAt(s, c, IndexOf(s, <<c>>))

\* Array.prototype.join
RECURSIVE JoinWith(_, _)
JoinWith(parts, c) ==
    IF Len(parts) = 0 THEN <<>>
    ELSE IF Len(parts) = 1 THEN parts[1]
    ELSE parts[1] \o c \o JoinWith(Tail(parts), c)

\* the segments a POSIX path walks: empty and "." segments are skipped
Segments(p) == SelectSeq(Split(p, SEP), LAMBDA x : x # <<>> /\ x # <<".">>)

IsAbsolute(p) == Len(p) > 0 /\ p[1] = SEP
HasTrailingSep(p) == Len(p) > 0 /\ p[Len(p)] = SEP

\* path.normalize (POSIX) for paths without ".." segments
NormalizeSegments(p, segs) ==
    IF Len(segs) = 0 THEN (IF IsAbsolute(p) THEN <<SEP>> ELSE <<".">>)
    ELSE (IF IsAbsolute(p) THEN <<SEP>> ELSE <<>>) \o JoinWith(segs, <<SEP>>)
            \o (IF HasTrailingSep(p) THEN <<SEP>> ELSE <<>>)
NormalizePath(p) == NormalizeSegments(p, Segments(p))

\* path.join (POSIX) of two arguments: empty arguments are skipped
JoinPath(a, b) ==
    IF a = <<>> /\ b = <<>> THEN <<".">>
    ELSE IF a = <<>> THEN NormalizePath(b)
    ELSE IF b = <<>> THEN NormalizePath(a)
    ELSE NormalizePath(a \o <<SEP>> \o b)

(***************************************************************************)
(* The filesystem.  Paths are absolute and canonical; a node is a          *)
(* directory or a file with its bytes, its mtime and whether the process   *)
(* may read it.                                                            *)
(***************************************************************************)
INDEX_HTML == <<"i", "n", "d", "e", "x", ".", "h", "t", "m", "l">>

\* process.cwd()
Cwd == <<"/", "w">>

P_root == Cwd \o <<"/", "p">>
F_env == P_root \o <<"/", ".", "e">>
F_a == P_root \o <<"/", "a", ".", "t">>
D_d == P_root \o <<"/", "d">>
D_h == P_root \o <<"/", "h">>
F_hi == D_h \o <<"/">> \o INDEX_HTML
F_u == P_root \o <<"/", "u", ".", "t">>

Dir(t) == [isDir |-> TRUE, data |-> "", mtime |-> t, readable |-> TRUE]
File(d, t, r) == [isDir |-> FALSE, data |-> d, mtime |-> t, readable |-> r]

\* the asset tree of the tests: a file, a hidden file, a directory with an
\* index.html and a directory without one
FSBase ==
    (Cwd :> Dir(2)) @@ (P_root :> Dir(2)) @@ (D_d :> Dir(2)) @@ (D_h :> Dir(2))
    @@ (F_env :> File("E", 3, TRUE)) @@ (F_a :> File("A", 3, TRUE))
    @@ (F_hi :> File("H", 3, TRUE))

\* the same tree with one more file that the process may stat but not read
FSUnreadable == FSBase @@ (F_u :> File("U", 3, FALSE))

FileSystems == {FSBase, FSUnreadable}

\* the tree of the tests with a directory whose name has a dot, holding a
\* file whose name has none
D_v == P_root \o <<"/", "v", ".", "1">>
F_n == D_v \o <<"/", "n">>
FSDotted == FSBase @@ (D_v :> Dir(2)) @@ (F_n :> File("N", 3, TRUE))

\* the tree with a second file that differs from a.t in its extension only
F_ax == P_root \o <<"/", "a", ".", "x">>
FSTwins == FSBase @@ (F_ax :> File("X", 3, TRUE))

\* the order in which readdir lists the entries
DirOrder == <<Cwd, P_root, F_env, F_a, F_ax, D_d, D_h, F_hi, F_u, D_v, F_n>>

\* path.resolve of one argument, for paths without ".." segments
ResolveSegments(p, segs) ==
    IF IsAbsolute(p) THEN <<SEP>> \o JoinWith(segs, <<SEP>>)
    ELSE IF Len(segs) = 0 THEN Cwd
    ELSE Cwd \o <<SEP>> \o JoinWith(segs, <<SEP>>)
Resolve(p) == ResolveSegments(p, Segments(p))

\* the node a path names for a system call, or ENOENT/ENOTDIR: an empty path
\* names nothing and a trailing separator demands a directory
NoNode == [ok |-> FALSE, isDir |-> FALSE, data |-> "", mtime |-> 0, readable |-> FALSE]
Found(n) ==
    [ok |-> TRUE, isDir |-> n.isDir, data |-> n.data, mtime |-> n.mtime,
     readable |-> n.readable]
LookupAt(fsys, p, abs) ==
    IF Len(p) > 0 /\ abs \in DOMAIN fsys /\ (HasTrailingSep(p) => fsys[abs].isDir)
    THEN Found(fsys[abs])
    ELSE NoNode
Lookup(fsys, p) == LookupAt(fsys, p, Resolve(p))

\* fs/promises stat
StatOf(n) == [ok |-> n.ok, isDir |-> n.isDir, mtime |-> n.mtime]
Stat(fsys, p) == StatOf(Lookup(fsys, p))

\* fs/promises readFile
ReadOf(n) ==
    IF n.ok /\ ~n.isDir /\ n.readable THEN [ok |-> TRUE, data |-> n.data]
    ELSE [ok |-> FALSE, data |-> ""]
ReadFile(fsys, p) == ReadOf(Lookup(fsys, p))

\* fileExists (index.ts): stat succeeded
fileExists(fsys, p) == Stat(fsys, p).ok

\* fs/promises readdir: the names directly under dir
LastOf(segs) == segs[Len(segs)]
LastSegment(p) == LastOf(Segments(p))
DropLast(p, name) == Slice(p, 1, Len(p) - Len(name) - 1)
Parent(p) == DropLast(p, LastSegment(p))
Names(kids) == [i \in 1..Len(kids) |-> LastSegment(kids[i])]
ReadDir(fsys, dir) ==
    Names(SelectSeq(DirOrder, LAMBDA q : q \in DOMAIN fsys /\ q # Cwd /\ Parent(q) = dir))

\* listFiles (index.ts): the files under dir by recursive descent, as
\* absolute paths; ok is FALSE when readdir or a stat rejects
RECURSIVE listFiles(_, _)
RECURSIVE ListEntries(_, _, _)
Listed(ok, files) == [ok |-> ok, files |-> files]
Both(head, rest) == Listed(head.ok /\ rest.ok, head.files \o rest.files)
ListEntry(fsys, file, stats) ==
    IF ~stats.ok THEN Listed(FALSE, <<>>)
    ELSE IF stats.isDir THEN listFiles(fsys, file)
    ELSE Listed(TRUE, <<Resolve(file)>>)
ListEntries(fsys, dir, names) ==
    IF Len(names) = 0 THEN Listed(TRUE, <<>>)
    ELSE Both(ListEntry(fsys, dir \o <<SEP>> \o names[1],
                        Stat(fsys, dir \o <<SEP>> \o names[1])),
              ListEntries(fsys, dir, Tail(names)))

ListDir(fsys, dir, stats) ==
    IF ~(stats.ok /\ stats.isDir) THEN Listed(FALSE, <<>>)
    ELSE ListEntries(fsys, dir, ReadDir(fsys, dir))
listFiles(fsys, dir) == ListDir(fsys, dir, Stat(fsys, dir))

(***************************************************************************)
(* The options of one staticPlugin call (index.ts, lines 64-187).          *)
(***************************************************************************)
\* an ignore rule: a string, or the regular expression /<text>$/
StrRule(t) == [kind |-> "string", text |-> t]
ReRule(t) == [kind |-> "regexp", text |-> t]

IgnDefault == <<StrRule(<<".", "e">>)>>
IgnNone == <<>>
IgnExact == <<StrRule(<<"p", "/", ".", "e">>)>>
IgnRegExp == <<ReRule(<<".", "e">>)>>
IgnLong == <<StrRule(F_a \o <<"x">>)>>
IgnIndex == <<ReRule(INDEX_HTML)>>

NoHeaders == <<>>
XHeaders == [h \in {"X-Custom-Header"} |-> <<"custom-value">>]

Assets == {<<"p">>, P_root, <<"q">>}
Prefixes == {<<"/", "s">>, <<"/">>, <<>>}
StaticLimits == {2, 3, 4}
IgnoreLists == {IgnDefault, IgnNone, IgnExact, IgnRegExp, IgnLong, IgnIndex}
HeaderSets == {NoHeaders, XHeaders}
\* maxAge: <<>> is null, <<n>> is the number n
MaxAges == {<<86400>>, <<0>>, <<>>}
Directives == {"public", "private"}

\* the values each option takes in the model
OptionValues ==
    [assets |-> Assets, prefix |-> Prefixes, staticLimit |-> StaticLimits,
     alwaysStatic |-> BOOLEAN, envProduction |-> BOOLEAN,
     ignorePatterns |-> IgnoreLists, noExtension |-> BOOLEAN,
     enableDecodeURI |-> BOOLEAN, headers |-> HeaderSets, noCache |-> BOOLEAN,
     maxAge |-> MaxAges, directive |-> Directives, indexHTML |-> BOOLEAN]

\* the defaults of the destructured parameter, with NODE_ENV and ENV unset;
\* staticLimit, 1024 in the source, is scaled to the size of the asset trees
DefaultOpts ==
    [assets |-> <<"p">>, prefix |-> <<"/", "s">>, staticLimit |-> 3,
     alwaysStatic |-> FALSE, envProduction |-> FALSE,
     ignorePatterns |-> IgnDefault, noExtension |-> FALSE,
     enableDecodeURI |-> FALSE, headers |-> NoHeaders, noCache |-> FALSE,
     maxAge |-> <<86400>>, directive |-> "public", indexHTML |-> TRUE]

\* a scenario: the options of the call and the asset tree it runs on
Scenario(o, fsys) == [opts |-> o, fs |-> fsys]

\* the scenarios at most one change away from those of S: one option given
\* another value, or another asset tree
OneChange(S) ==
    S \cup UNION {UNION {{Scenario([sc.opts EXCEPT ![f] = v], sc.fs) :
                            v \in OptionValues[f]} : f \in DOMAIN OptionValues} :
                  sc \in S}
      \cup {Scenario(sc.opts, fsys) : sc \in S, fsys \in FileSystems}

RECURSIVE Changes(_, _)
Changes(S, n) == IF n = 0 THEN S ELSE Changes(OneChange(S), n - 1)

\* the defaults in either mode, and what is MaxNonDefault changes away
Scenarios ==
    Changes({Scenario([DefaultOpts EXCEPT !.alwaysStatic = b], FSBase) : b \in BOOLEAN},
            MaxNonDefault)

(***************************************************************************)
(* cache.ts: generateETag and isCached.                                    *)
(***************************************************************************)
\* generateETag: a fingerprint of the file's bytes; rejects when the file
\* cannot be read
ETagOf(r) == [ok |-> r.ok, etag |-> IF r.ok THEN <<"md5", r.data>> ELSE NONE]
generateETag(fsys, p) == ETagOf(ReadFile(fsys, p))

\* isCached(headers, etag, key), on the filesystem fsys: If-None-Match equal to the ETag, else
\* If-Modified-Since at or after the mtime of the file named by key
NotModified(headers, etag, stats) ==
    IF headers.inm # NONE /\ headers.inm = etag THEN TRUE
    ELSE headers.ims # NONE /\ stats.ok /\ headers.ims[1] >= stats.mtime
isCached(fsys, headers, etag, key) == NotModified(headers, etag, Stat(fsys, key))

(***************************************************************************)
(* staticPlugin: route building (index.ts, lines 189-396).                 *)
(***************************************************************************)
\* shouldIgnore, lines 194-201
PatternMatches(pattern, file) ==
    IF pattern.kind = "string" THEN Includes(pattern.text, file)
    ELSE EndsWith(file, pattern.text)

shouldIgnore(o, file) ==
    \E i \in 1..Len(o.ignorePatterns) : PatternMatches(o.ignorePatterns[i], file)

\* a prefix "/" kept as it is
NormPrefixKept(o) == o.prefix

\* line 192
NormPrefix(o) == IF o.prefix = <<URL_PATH_SEP>> THEN <<>> ELSE o.prefix

\* line 205
assetsDir(o) ==
    IF Len(o.assets) > 0 /\ o.assets[1] = SEP THEN o.assets
    ELSE Cwd \o <<SEP>> \o o.assets

\* lines 215-220: split('.'), splice(-1), join('.')
DropLastPart(temp) == JoinWith(SubSeq(temp, 1, Len(temp) - 1), <<".">>)
StripExtension(relativePath) == DropLastPart(Split(relativePath, "."))

Route(kind, path, absolutePath, etag, key) ==
    [method |-> "GET", path |-> path, kind |-> kind,
     absolutePath |-> absolutePath, etag |-> etag, key |-> key]

\* lines 228-285: the route of a file and, for an index.html, its alias
IndexSuffix == <<URL_PATH_SEP>> \o INDEX_HTML
Emit(o, absolutePath, etag, pathName) ==
    IF ~etag.ok THEN [ok |-> FALSE, routes |-> <<>>]
    ELSE [ok |-> TRUE,
          routes |->
            <<Route("file", pathName, absolutePath, etag.etag, absolutePath)>>
            \o (IF o.indexHTML /\ EndsWith(pathName, IndexSuffix)
                THEN <<Route("alias", ReplaceFirst(pathName, IndexSuffix, <<>>),
                             absolutePath, etag.etag, pathName)>>
                ELSE <<>>)]

\* lines 213-220
RelativePath(o, relativePath) ==
    IF o.noExtension THEN StripExtension(relativePath) ELSE relativePath

\* lines 211-286, one iteration: the routes of one enumerated file
FileRoutes(o, fsys, absolutePath) ==
    IF Len(absolutePath) = 0 \/ shouldIgnore(o, absolutePath)
    THEN [ok |-> TRUE, routes |-> <<>>]
    ELSE Emit(o, absolutePath, generateETag(fsys, absolutePath),
              JoinPath(NormPrefix(o),
                       RelativePath(o, ReplaceFirst(absolutePath, assetsDir(o), <<>>))))

\* the for loop of lines 211-286: it stops at the first rejection
RECURSIVE StaticRoutes(_, _, _)
\* a file whose routes could not be built is skipped
ChainPartial(head, rest) ==
    IF ~head.ok THEN rest
    ELSE [ok |-> rest.ok, routes |-> head.routes \o rest.routes]

Chain(head, rest) ==
    IF ~head.ok THEN head
    ELSE [ok |-> rest.ok, routes |-> head.routes \o rest.routes]
StaticRoutes(o, fsys, files) ==
    IF Len(files) = 0 THEN [ok |-> TRUE, routes |-> <<>>]
    ELSE Chain(FileRoutes(o, fsys, files[1]), StaticRoutes(o, fsys, Tail(files)))

\* the limit taken as exclusive
UseStaticBelowLimit(o, nfiles) ==
    o.alwaysStatic \/ (o.envProduction /\ nfiles < o.staticLimit)

\* lines 207-210: the mode decision
UseStatic(o, nfiles) ==
    o.alwaysStatic \/ (o.envProduction /\ nfiles <= o.staticLimit)

\* lines 287-393: the wildcard route, pushed unless the (empty) route list
\* already holds it
WildcardPath(o) == NormPrefix(o) \o <<"/", "*">>
WildcardRoutes(o, soFar) ==
    IF \E i \in 1..Len(soFar) :
          soFar[i].path = WildcardPath(o) /\ soFar[i].method = "GET"
    THEN soFar
    ELSE Append(soFar, Route("wildcard", WildcardPath(o), NONE, NONE, NONE))

\* staticPlugin as a whole: rejected, or the mode and the route list returned
Returned(built) ==
    [ok |-> built.ok, mode |-> IF built.ok THEN "static" ELSE "none",
     routes |-> IF built.ok THEN built.routes ELSE <<>>]
BuildFrom(o, fsys, listed) ==
    IF ~listed.ok THEN [ok |-> FALSE, mode |-> "none", routes |-> <<>>]
    ELSE IF UseStatic(o, Len(listed.files))
    THEN Returned(StaticRoutes(o, fsys, listed.files))
    ELSE [ok |-> TRUE, mode |-> "dynamic", routes |-> WildcardRoutes(o, <<>>)]
BuildRoutes(o, fsys) == BuildFrom(o, fsys, listFiles(fsys, Resolve(o.assets)))

(***************************************************************************)
(* node-cache, as configured in lines 26-45: useClones false, stdTTL three *)
(* hours, maxKeys.  A cache is a function from keys to [v, t], t being the *)
(* time the entry expires.                                                 *)
(***************************************************************************)
EmptyCache == <<>>

Remove(c, k) == [x \in DOMAIN c \ {k} |-> c[x]]

\* a lookup that does not tell the keys apart
CacheGetAnyKey(c, k, time) ==
    IF DOMAIN c = {} THEN [hit |-> FALSE, v |-> NONE, cache |-> c]
    ELSE [hit |-> TRUE, v |-> c[CHOOSE x \in DOMAIN c : TRUE].v, cache |-> c]

\* a get that pays no attention to the TTL
CacheGetStale(c, k, time) ==
    IF k \notin DOMAIN c THEN [hit |-> FALSE, v |-> NONE, cache |-> c]
    ELSE [hit |-> TRUE, v |-> c[k].v, cache |-> c]

\* get: a miss is undefined (NONE); an entry found expired is deleted
CacheGet(c, k, time) ==
    IF k \notin DOMAIN c THEN [hit |-> FALSE, v |-> NONE, cache |-> c]
    ELSE IF c[k].t < time THEN [hit |-> FALSE, v |-> NONE, cache |-> Remove(c, k)]
    ELSE [hit |-> TRUE, v |-> c[k].v, cache |-> c]

\* a set that never refuses a key
CacheSetUnbounded(c, k, v, time) ==
    [ok |-> TRUE, cache |-> (k :> [v |-> v, t |-> time + stdTTL]) @@ c]

\* set: throws ECACHEFULL when the cache already counts maxKeys keys, the
\* key itself included
CacheSet(c, k, v, time) ==
    IF Cardinality(DOMAIN c) >= MaxKeys THEN [ok |-> FALSE, cache |-> c]
    ELSE [ok |-> TRUE, cache |-> (k :> [v |-> v, t |-> time + stdTTL]) @@ c]

(***************************************************************************)
(* Requests and responses.                                                 *)
(***************************************************************************)
\* decodeURI: %61 is "a" and %2E is "."; the escape of a reserved character
\* (%2F) is kept; a "%" without two hexadecimal digits after it is a URIError
HexDigits == {"0", "1", "2", "3", "4", "5", "6", "7", "8", "9",
              "A", "B", "C", "D", "E", "F", "a", "b", "c", "d", "e", "f"}

PercentByte(h1, h2) ==
    CASE h1 = "6" /\ h2 = "1" -> <<"a">>
      [] h1 = "2" /\ h2 = "E" -> <<".">>
      [] h1 = "2" /\ h2 = "F" -> <<"%", "2", "F">>

RECURSIVE decodeURI(_)
decodeURI(s) ==
    IF Len(s) = 0 THEN [ok |-> TRUE, s |-> <<>>]
    ELSE IF s[1] # "%"
    THEN LET rest == decodeURI(Tail(s))
         IN  [ok |-> rest.ok, s |-> <<s[1]>> \o rest.s]
    ELSE IF Len(s) < 3 \/ s[2] \notin HexDigits \/ s[3] \notin HexDigits
    THEN [ok |-> FALSE, s |-> <<>>]
    ELSE LET rest == decodeURI(SubSeq(s, 4, Len(s)))
         IN  [ok |-> rest.ok, s |-> PercentByte(s[2], s[3]) \o rest.s]

NotFoundError == [status |-> "NotFound", body |-> "", headers |-> <<>>]
\* an error other than NotFoundError thrown to the dispatcher
Thrown(name) == [status |-> name, body |-> "", headers |-> <<>>]
\* new Response(bytes, { headers })
Ok(body, headers) == [status |-> "200", body |-> body, headers |-> headers]
\* a 304 that carries a Cache-Control header of its own
Empty304WithCacheControl(headers) ==
    [status |-> "304", body |-> "",
     headers |-> [h \in DOMAIN headers \cup {"Cache-Control"} |->
                     IF h = "Cache-Control" THEN <<"public">> ELSE headers[h]]]

\* empty(304, headers)
Empty304(headers) == [status |-> "304", body |-> "", headers |-> headers]

\* max-age left out when maxAge is falsy
CacheControlTruthy(o) ==
    IF o.maxAge # <<>> /\ o.maxAge[1] # 0
    THEN <<o.directive, ", max-age=", o.maxAge[1]>>
    ELSE <<o.directive>>

\* lines 244-248 and 377-381
CacheControl(o) ==
    IF o.maxAge # <<>> THEN <<o.directive, ", max-age=", o.maxAge[1]>>
    ELSE <<o.directive>>

ResponseHeaders(o, etag) ==
    [h \in DOMAIN o.headers \cup {"Etag", "Cache-Control"} |->
        IF h = "Cache-Control" THEN CacheControl(o)
        ELSE IF h = "Etag" THEN etag
        ELSE o.headers[h]]

\* a handler's result: the response (or the error thrown), the caches it
\* leaves and the filesystem and evaluator calls it made, in order
Out(r, sc, fc, hc, calls) ==
    [resp |-> r, stat |-> sc, file |-> fc, html |-> hc, ops |-> calls]

\* the handlers of a static route, lines 231-254 and 261-284
StaticReply(o, route, file, cached) ==
    IF o.noCache
    THEN [resp |-> IF file.ok THEN Ok(file.data, o.headers) ELSE Thrown("Error"),
          ops |-> <<"readFile">>]
    ELSE IF cached
    THEN [resp |-> Empty304(o.headers), ops |-> <<"isCached">>]
    ELSE [resp |-> IF file.ok THEN Ok(file.data, ResponseHeaders(o, route.etag))
                   ELSE Thrown("Error"),
          ops |-> <<"isCached", "readFile">>]
StaticHandler(o, fsys, route, request) ==
    StaticReply(o, route, ReadFile(fsys, route.absolutePath),
                isCached(fsys, request, route.etag, route.key))

\* the noCache branch of lines 363-368 left out
ReplyAlwaysConditional(o, file, etag, cached, sc, fc, hc, calls) ==
    IF ~etag.ok
    THEN Out(NotFoundError, sc, fc, hc, calls \o <<"generateETag">>)
    ELSE IF cached
    THEN Out(Empty304(o.headers), sc, fc, hc, calls \o <<"generateETag", "isCached">>)
    ELSE Out(IF file.ok THEN Ok(file.data, ResponseHeaders(o, etag.etag))
             ELSE NotFoundError,
             sc, fc, hc, calls \o <<"generateETag", "isCached", "readFile">>)

\* the body read before the conditional evaluation
ReplyReadFirst(o, file, etag, cached, sc, fc, hc, calls) ==
    IF o.noCache
    THEN Out(IF file.ok THEN Ok(file.data, o.headers) ELSE NotFoundError,
             sc, fc, hc, calls \o <<"readFile">>)
    ELSE IF ~etag.ok
    THEN Out(NotFoundError, sc, fc, hc, calls \o <<"generateETag">>)
    ELSE Out(IF ~file.ok THEN NotFoundError
             ELSE IF cached THEN Empty304(o.headers)
             ELSE Ok(file.data, ResponseHeaders(o, etag.etag)),
             sc, fc, hc, calls \o <<"generateETag", "readFile", "isCached">>)

\* lines 363-386: the response for the resolved file, given what readFile,
\* generateETag and isCached return; whatever is thrown here is caught at
\* line 387
Reply(o, file, etag, cached, sc, fc, hc, calls) ==
    IF o.noCache
    THEN Out(IF file.ok THEN Ok(file.data, o.headers) ELSE NotFoundError,
             sc, fc, hc, calls \o <<"readFile">>)
    ELSE IF ~etag.ok
    THEN Out(NotFoundError, sc, fc, hc, calls \o <<"generateETag">>)
    ELSE IF cached
    THEN Out(Empty304(o.headers), sc, fc, hc, calls \o <<"generateETag", "isCached">>)
    ELSE Out(IF file.ok THEN Ok(file.data, ResponseHeaders(o, etag.etag))
             ELSE NotFoundError,
             sc, fc, hc, calls \o <<"generateETag", "isCached", "readFile">>)

\* line 374: isCached(headersRecord, etag, path), path being the candidate
\* path of the request
Conditional(o, fsys, request, path, file, etag, sc, fc, hc, calls) ==
    Reply(o, file, etag, isCached(fsys, request, etag.etag, path), sc, fc, hc, calls)

ServeFile(o, fsys, request, path, filePath, sc, fc, hc, calls) ==
    Conditional(o, fsys, request, path, ReadFile(fsys, filePath),
                generateETag(fsys, filePath), sc, fc, hc, calls)

\* lines 359-360: fileCache.set(path, filePath), set being its outcome
Remember(o, fsys, request, path, filePath, sc, set, hc, calls) ==
    IF ~set.ok THEN Out(NotFoundError, sc, set.cache, hc, calls)
    ELSE ServeFile(o, fsys, request, path, filePath, sc, set.cache, hc, calls)

\* lines 331-337: htmlCache.get(index) ?? await fileExists(index), unless
\* indexHTML is off.  hasCache is <<>> for undefined and <<b>> for the
\* boolean b.
IndexLookup(o, fsys, index, html, hc, calls) ==
    IF ~o.indexHTML THEN [hasCache |-> <<FALSE>>, cache |-> hc, calls |-> calls]
    ELSE IF html.hit THEN [hasCache |-> html.v, cache |-> html.cache, calls |-> calls]
    ELSE [hasCache |-> <<fileExists(fsys, index)>>, cache |-> html.cache,
          calls |-> calls \o <<"fileExists">>]

\* htmlCache.set(index, b) when hasCache === undefined, lines 339-343 and
\* 349-353
NoteIndex(look, index, b, time) ==
    IF look.hasCache = <<>> THEN CacheSet(look.cache, index, <<b>>, time)
    ELSE [ok |-> TRUE, cache |-> look.cache]

\* lines 345-347 and 359-360: the index file is remembered for the
\* directory, twice
ServeIndex(o, fsys, request, path, index, sc, fc, hcSet, dirSet, time, calls) ==
    IF ~hcSet.ok \/ ~dirSet.ok THEN Out(NotFoundError, sc, fc, hcSet.cache, calls)
    ELSE Remember(o, fsys, request, path, index, sc,
                  CacheSet(dirSet.cache, path, index, time), hcSet.cache, calls)

\* lines 327-357: the candidate path is a directory
DirectoryWith(o, fsys, request, path, index, sc, fc, look, time) ==
    IF look.hasCache # <<TRUE>>
    THEN Out(NotFoundError, sc, fc,
             IF o.indexHTML THEN NoteIndex(look, index, FALSE, time).cache
             ELSE look.cache,
             look.calls)
    ELSE ServeIndex(o, fsys, request, path, index, sc, fc,
                    NoteIndex(look, index, TRUE, time),
                    CacheSet(fc, path, index, time), time, look.calls)

Directory(o, fsys, request, path, index, sc, fc, hc, time, calls) ==
    DirectoryWith(o, fsys, request, path, index, sc, fc,
                  IndexLookup(o, fsys, index, CacheGet(hc, index, time), hc, calls),
                  time)

\* lines 324-361: the file served for path, through fileCache and htmlCache
Resolved(o, fsys, request, path, status, sc, got, hc, time, calls) ==
    IF got.hit /\ Len(got.v) > 0
    THEN ServeFile(o, fsys, request, path, got.v, sc, got.cache, hc, calls)
    ELSE IF status.isDir
    THEN Directory(o, fsys, request, path, path \o <<SEP>> \o INDEX_HTML,
                   sc, got.cache, hc, time, calls)
    ELSE Remember(o, fsys, request, path, path, sc,
                  CacheSet(got.cache, path, path, time), hc, calls)

ResolveFile(o, fsys, request, path, status, sc, fc, hc, time, calls) ==
    Resolved(o, fsys, request, path, status, sc, CacheGet(fc, path, time), hc, time, calls)

\* the stat result used but not kept in statCache
StoredUnkept(o, fsys, request, path, status, set, fc, hc, time, calls) ==
    IF ~set.ok \/ (~o.indexHTML /\ status.isDir)
    THEN Out(NotFoundError, set.cache, fc, hc, calls)
    ELSE ResolveFile(o, fsys, request, path, status, Remove(set.cache, path),
                     fc, hc, time, calls)

\* lines 317-322: statCache.set(path, status), set being its outcome, and
\* the directory check
Stored(o, fsys, request, path, status, set, fc, hc, time, calls) ==
    IF ~set.ok \/ (~o.indexHTML /\ status.isDir)
    THEN Out(NotFoundError, set.cache, fc, hc, calls)
    ELSE ResolveFile(o, fsys, request, path, status, set.cache, fc, hc, time, calls)

\* the failure of a stat kept in statCache
StatedNegative(o, fsys, request, path, got, status, fc, hc, time) ==
    IF got.hit
    THEN Stored(o, fsys, request, path, got.v, [ok |-> TRUE, cache |-> got.cache],
                fc, hc, time, <<>>)
    ELSE IF ~status.ok
    THEN Out(NotFoundError, CacheSet(got.cache, path, status, time).cache,
             fc, hc, <<"stat">>)
    ELSE Stored(o, fsys, request, path, status,
                CacheSet(got.cache, path, status, time), fc, hc, time, <<"stat">>)

\* a failed stat tried a second time
StatedTwice(o, fsys, request, path, got, status, fc, hc, time) ==
    IF got.hit
    THEN Stored(o, fsys, request, path, got.v, [ok |-> TRUE, cache |-> got.cache],
                fc, hc, time, <<>>)
    ELSE IF ~status.ok THEN Out(NotFoundError, got.cache, fc, hc, <<"stat", "stat">>)
    ELSE Stored(o, fsys, request, path, status,
                CacheSet(got.cache, path, status, time), fc, hc, time, <<"stat">>)

\* lines 314-318: the stat, taken when statCache missed
Stated(o, fsys, request, path, got, status, fc, hc, time) ==
    IF got.hit
    THEN Stored(o, fsys, request, path, got.v, [ok |-> TRUE, cache |-> got.cache],
                fc, hc, time, <<>>)
    ELSE IF ~status.ok THEN Out(NotFoundError, got.cache, fc, hc, <<"stat">>)
    ELSE Stored(o, fsys, request, path, status,
                CacheSet(got.cache, path, status, time), fc, hc, time, <<"stat">>)

\* lines 313-389: the try block; an error thrown inside it becomes
\* NotFoundError
Looked(o, fsys, request, path, got, fc, hc, time) ==
    Stated(o, fsys, request, path, got, Stat(fsys, path), fc, hc, time)
TryResolve(o, fsys, request, path, sc, fc, hc, time) ==
    Looked(o, fsys, request, path, CacheGet(sc, path, time), fc, hc, time)

\* lines 299-304: the candidate path of a request; with sep = "/" the
\* separator replacement of lines 307-309 does not apply
Decoded(o, joined) ==
    IF o.enableDecodeURI THEN decodeURI(joined) ELSE [ok |-> TRUE, s |-> joined]
CandidatePath(o, url) == Decoded(o, o.assets \o ReplaceFirst(url, NormPrefix(o), <<>>))

\* the wildcard handler, lines 297-390
Handled(o, fsys, request, path, sc, fc, hc, time) ==
    IF ~path.ok THEN Out(Thrown("URIError"), sc, fc, hc, <<>>)
    ELSE IF shouldIgnore(o, path.s) THEN Out(NotFoundError, sc, fc, hc, <<>>)
    ELSE TryResolve(o, fsys, request, path.s, sc, fc, hc, time)
WildcardHandler(o, fsys, request, sc, fc, hc, time) ==
    Handled(o, fsys, request, CandidatePath(o, request.url), sc, fc, hc, time)

(***************************************************************************)
(* The state machine: one staticPlugin call, then the dispatcher hands     *)
(* requests to the handlers of the returned routes, one at a time.         *)
(***************************************************************************)
NoRequest == [route |-> 0, url |-> <<>>, inm |-> NONE, ims |-> NONE]
NoResponse == [status |-> "none", body |-> "", headers |-> <<>>]

\* what follows the prefix in the URLs requested from the wildcard route: a
\* file, a directory with and without index.html, the index file itself, the
\* hidden file, a missing file, a malformed escape and an escaped "a.t"
UrlRests ==
    {<<"/", "a", ".", "t">>, <<"/", "h">>, <<"/", "h", "/">> \o INDEX_HTML,
     <<"/", "d">>, <<"/", ".", "e">>, <<"/", "z">>,
     <<"/", "%">>, <<"/", "%", "6", "1", ".", "t">>}

\* the validators a request may carry: If-None-Match (the ETag of a.t or of
\* index.html) and If-Modified-Since (before or at the files' mtime)
Validators ==
    {[inm |-> NONE, ims |-> NONE],
     [inm |-> <<"md5", "A">>, ims |-> NONE],
     [inm |-> <<"md5", "H">>, ims |-> NONE],
     [inm |-> NONE, ims |-> <<2>>],
     [inm |-> NONE, ims |-> <<3>>],
     [inm |-> <<"md5", "H">>, ims |-> <<3>>]}

Init ==
    /\ \E sc \in Scenarios : opts = sc.opts /\ fs = sc.fs
    /\ pc = "init"
    /\ mode = "none"
    /\ routes = <<>>
    /\ statCache = EmptyCache
    /\ fileCache = EmptyCache
    /\ htmlCache = EmptyCache
    /\ now = 0
    /\ req = NoRequest
    /\ resp = NoResponse
    /\ ops = <<>>
    /\ composed = <<>>
    /\ inflight = <<>>

\* await staticPlugin(opts)
StaticPlugin ==
    /\ pc = "init"
    /\ LET built == BuildRoutes(opts, fs)
       IN  /\ pc' = IF built.ok THEN "ready" ELSE "failed"
           /\ mode' = built.mode
           /\ routes' = built.routes
    /\ UNCHANGED <<opts, fs, statCache, fileCache, htmlCache, now, req, resp, ops>>
    /\ UNCHANGED <<composed, inflight>>

\* the dispatcher matches a request to static route i and calls its handler
DispatchStatic(i, v) ==
    /\ pc = "ready"
    /\ routes[i].kind # "wildcard"
    /\ req' = [route |-> i, url |-> routes[i].path, inm |-> v.inm, ims |-> v.ims]
    /\ pc' = "handling"
    /\ UNCHANGED <<opts, fs, mode, routes, statCache, fileCache, htmlCache, now, resp, ops>>
    /\ UNCHANGED <<composed, inflight>>

\* the dispatcher matches a request under the prefix to the wildcard route i
DispatchWildcard(i, rest, v) ==
    /\ pc = "ready"
    /\ routes[i].kind = "wildcard"
    /\ req' = [route |-> i, url |-> NormPrefix(opts) \o rest, inm |-> v.inm, ims |-> v.ims]
    /\ pc' = "handling"
    /\ UNCHANGED <<opts, fs, mode, routes, statCache, fileCache, htmlCache, now, resp, ops>>
    /\ UNCHANGED <<composed, inflight>>

\* the handler of a static route runs
HandleStatic ==
    /\ pc = "handling"
    /\ routes[req.route].kind # "wildcard"
    /\ LET out == StaticHandler(opts, fs, routes[req.route], req)
       IN  /\ resp' = out.resp
           /\ ops' = out.ops
    /\ pc' = "responded"
    /\ UNCHANGED <<opts, fs, mode, routes, statCache, fileCache, htmlCache, now, req>>
    /\ UNCHANGED <<composed, inflight>>

\* the wildcard handler runs
HandleWildcard ==
    /\ pc = "handling"
    /\ routes[req.route].kind = "wildcard"
    /\ LET out == WildcardHandler(opts, fs, req, statCache, fileCache, htmlCache, now)
       IN  /\ resp' = out.resp
           /\ ops' = out.ops
           /\ statCache' = out.stat
           /\ fileCache' = out.file
           /\ htmlCache' = out.html
    /\ pc' = "responded"
    /\ UNCHANGED <<opts, fs, mode, routes, now, req>>
    /\ UNCHANGED <<composed, inflight>>

\* the response leaves; the next request may come
Deliver ==
    /\ pc = "responded"
    /\ pc' = "ready"
    /\ req' = NoRequest
    /\ resp' = NoResponse
    /\ ops' = <<>>
    /\ UNCHANGED <<opts, fs, mode, routes, statCache, fileCache, htmlCache, now>>
    /\ UNCHANGED <<composed, inflight>>

Next ==
    \/ StaticPlugin
    \/ \E i \in 1..Len(routes), v \in Validators : DispatchStatic(i, v)
    \/ \E i \in 1..Len(routes), rest \in UrlRests, v \in Validators :
          DispatchWildcard(i, rest, v)
    \/ HandleStatic
    \/ HandleWildcard
    \/ Deliver

Spec == Init /\ [][Next]_vars

(***************************************************************************)
(* Static mode under every spelling of the assets root: the calls of the   *)
(* tests "always static with assets on an absolute path", "exclude         *)
(* extension" and "should handle root prefix", and of the README           *)
(* (assets: './public').                                                   *)
(***************************************************************************)
AssetSpellings == Assets \cup {<<".", "/", "p">>}

PathScenarios ==
    {Scenario([DefaultOpts EXCEPT !.alwaysStatic = TRUE, !.assets = a, !.prefix = p,
                                  !.noExtension = n, !.indexHTML = x], fsys) :
        a \in AssetSpellings, p \in Prefixes, n \in BOOLEAN, x \in BOOLEAN,
        fsys \in {FSBase, FSDotted, FSTwins}}

InitPaths ==
    /\ \E sc \in PathScenarios : opts = sc.opts /\ fs = sc.fs
    /\ pc = "init"
    /\ mode = "none"
    /\ routes = <<>>
    /\ statCache = EmptyCache
    /\ fileCache = EmptyCache
    /\ htmlCache = EmptyCache
    /\ now = 0
    /\ req = NoRequest
    /\ resp = NoResponse
    /\ ops = <<>>
    /\ composed = <<>>
    /\ inflight = <<>>

NextPaths ==
    \/ StaticPlugin
    \/ \E i \in 1..Len(routes), v \in Validators : DispatchStatic(i, v)
    \/ HandleStatic
    \/ Deliver

SpecPaths == InitPaths /\ [][NextPaths]_vars

(***************************************************************************)
(* Concurrent invocations of the wildcard handler.  An invocation runs     *)
(* without interruption from one await to the next; between two awaits     *)
(* that surround a cache access (await stat, line 317, and await           *)
(* fileExists, line 335) the other invocations may run.  From the last     *)
(* cache access on, an invocation reads the fixed filesystem only, so its  *)
(* remaining awaits are taken in one step.                                 *)
(***************************************************************************)
ConcScenarios ==
    {Scenario([DefaultOpts EXCEPT !.indexHTML = x, !.noCache = n], FSBase) :
        x \in BOOLEAN, n \in BOOLEAN}

ConcUrlRests ==
    {<<"/", "a", ".", "t">>, <<"/", "h">>, <<"/", "d">>, <<"/", "z">>}

ConcValidators == {[inm |-> NONE, ims |-> NONE], [inm |-> NONE, ims |-> <<3>>]}

InitConc ==
    /\ \E sc \in ConcScenarios : opts = sc.opts /\ fs = sc.fs
    /\ pc = "init"
    /\ mode = "none"
    /\ routes = <<>>
    /\ statCache = EmptyCache
    /\ fileCache = EmptyCache
    /\ htmlCache = EmptyCache
    /\ now = 0
    /\ req = NoRequest
    /\ resp = NoResponse
    /\ ops = <<>>
    /\ composed = <<>>
    /\ inflight = <<>>

\* an invocation: its request, the await it stands at, its candidate path,
\* the response the handler gives this request when it runs alone on the
\* caches as they are when the invocation starts, and its own response
Invocation(request, at, path, alone, out) ==
    [request |-> request, at |-> at, path |-> path, alone |-> alone, out |-> out]

Put(i, inv) ==
    IF i > Len(inflight) THEN Append(inflight, inv) ELSE [inflight EXCEPT ![i] = inv]

\* the invocation ends with the result out of the rest of the handler
Finish(i, inv, out) ==
    /\ statCache' = out.stat
    /\ fileCache' = out.file
    /\ htmlCache' = out.html
    /\ inflight' = Put(i, [inv EXCEPT !.at = "done", !.out = out.resp])

\* lines 318-335: with the status in hand, does the handler come to
\* await fileExists?
AwaitsIndex(o, status, set, got, html) ==
    /\ set.ok
    /\ o.indexHTML
    /\ status.isDir
    /\ ~(got.hit /\ Len(got.v) > 0)
    /\ ~html.hit

\* lines 318-361, up to await fileExists or to the end
Suspend(i, inv, set, got, html) ==
    /\ statCache' = set.cache
    /\ fileCache' = got.cache
    /\ htmlCache' = html.cache
    /\ inflight' = Put(i, [inv EXCEPT !.at = "fileExists"])
ProceedWith(i, inv, status, set, got, html, calls) ==
    IF AwaitsIndex(opts, status, set, got, html)
    THEN Suspend(i, inv, set, got, html)
    ELSE Finish(i, inv, Stored(opts, fs, inv.request, inv.path, status, set,
                               fileCache, htmlCache, now, calls))
Proceed(i, inv, status, set, calls) ==
    ProceedWith(i, inv, status, set, CacheGet(fileCache, inv.path, now),
                CacheGet(htmlCache, inv.path \o <<SEP>> \o INDEX_HTML, now), calls)

\* lines 314-317: statCache.get, then await stat on a miss
AfterGet(i, inv, got) ==
    IF got.hit
    THEN Proceed(i, inv, got.v, [ok |-> TRUE, cache |-> got.cache], <<>>)
    ELSE /\ statCache' = got.cache
         /\ UNCHANGED <<fileCache, htmlCache>>
         /\ inflight' = Put(i, [inv EXCEPT !.at = "stat"])

\* lines 297-314
Enter(i, request, path, alone) ==
    IF ~path.ok
    THEN Finish(i, Invocation(request, "start", <<>>, alone, NoResponse),
                Out(Thrown("URIError"), statCache, fileCache, htmlCache, <<>>))
    ELSE IF shouldIgnore(opts, path.s)
    THEN Finish(i, Invocation(request, "start", path.s, alone, NoResponse),
                Out(NotFoundError, statCache, fileCache, htmlCache, <<>>))
    ELSE AfterGet(i, Invocation(request, "start", path.s, alone, NoResponse),
                  CacheGet(statCache, path.s, now))

Begin(i, request) ==
    Enter(i, request, CandidatePath(opts, request.url),
          WildcardHandler(opts, fs, request, statCache, fileCache, htmlCache, now).resp)

\* the dispatcher calls the wildcard handler while others are in flight
Start(rest, v) ==
    /\ pc = "ready"
    /\ mode = "dynamic"
    /\ Len(inflight) < MaxInflight
    /\ Begin(Len(inflight) + 1,
             [route |-> 1, url |-> NormPrefix(opts) \o rest, inm |-> v.inm, ims |-> v.ims])
    /\ UNCHANGED <<opts, fs, pc, mode, routes, now, req, resp, ops, composed>>

\* line 317: stat settles
Arrived(i, inv, status) ==
    IF ~status.ok
    THEN Finish(i, inv, Out(NotFoundError, statCache, fileCache, htmlCache, <<"stat">>))
    ELSE Proceed(i, inv, status, CacheSet(statCache, inv.path, status, now), <<"stat">>)
AfterStat(i) ==
    /\ inflight[i].at = "stat"
    /\ Arrived(i, inflight[i], Stat(fs, inflight[i].path))
    /\ UNCHANGED <<opts, fs, pc, mode, routes, now, req, resp, ops, composed>>

\* line 335: fileExists settles
Answered(inv, index) ==
    DirectoryWith(opts, fs, inv.request, inv.path, index, statCache, fileCache,
                  [hasCache |-> <<fileExists(fs, index)>>, cache |-> htmlCache,
                   calls |-> <<"fileExists">>], now)
AfterFileExists(i) ==
    /\ inflight[i].at = "fileExists"
    /\ Finish(i, inflight[i], Answered(inflight[i], inflight[i].path \o <<SEP>> \o INDEX_HTML))
    /\ UNCHANGED <<opts, fs, pc, mode, routes, now, req, resp, ops, composed>>

\* the response of a finished invocation leaves
Return(i) ==
    /\ inflight[i].at = "done"
    /\ inflight' = SubSeq(inflight, 1, i - 1) \o SubSeq(inflight, i + 1, Len(inflight))
    /\ UNCHANGED <<opts, fs, pc, mode, routes, statCache, fileCache, htmlCache, now,
                   req, resp, ops, composed>>

NextConc ==
    \/ StaticPlugin
    \/ \E rest \in ConcUrlRests, v \in ConcValidators : Start(rest, v)
    \/ \E i \in 1..Len(inflight) : AfterStat(i)
    \/ \E i \in 1..Len(inflight) : AfterFileExists(i)
    \/ \E i \in 1..Len(inflight) : Return(i)

SpecConc == InitConc /\ [][NextConc]_vars

(***************************************************************************)
(* Time: the clock advances between requests, the checkperiod timer of a   *)
(* cache deletes its expired entries, and a file may disappear from the    *)
(* asset tree while the server runs.                                       *)
(***************************************************************************)
ClockScenarios ==
    {Scenario([DefaultOpts EXCEPT !.indexHTML = x, !.ignorePatterns = ign], FSBase) :
        x \in BOOLEAN, ign \in {IgnDefault, IgnRegExp}}

ClockUrlRests ==
    {<<"/", "a", ".", "t">>, <<"/", "h">>, <<"/", ".", "e">>, <<"/", "z">>}

ClockValidators == {[inm |-> NONE, ims |-> NONE], [inm |-> NONE, ims |-> <<3>>]}

InitClock ==
    /\ \E sc \in ClockScenarios : opts = sc.opts /\ fs = sc.fs
    /\ pc = "init"
    /\ mode = "none"
    /\ routes = <<>>
    /\ statCache = EmptyCache
    /\ fileCache = EmptyCache
    /\ htmlCache = EmptyCache
    /\ now = 0
    /\ req = NoRequest
    /\ resp = NoResponse
    /\ ops = <<>>
    /\ composed = <<>>
    /\ inflight = <<>>

\* an hour passes
Tick ==
    /\ pc = "ready"
    /\ now < MaxNow
    /\ now' = now + 1
    /\ UNCHANGED <<opts, fs, pc, mode, routes, statCache, fileCache, htmlCache,
                   req, resp, ops, composed, inflight>>

\* checkperiod (lines 28, 35, 42): the timer of a cache deletes the entries
\* whose time has passed
Purge(c, time) == [k \in {x \in DOMAIN c : c[x].t >= time} |-> c[k]]
Sweep(which) ==
    /\ pc = "ready"
    /\ \/ which = "stat" /\ statCache' = Purge(statCache, now)
          /\ statCache' # statCache /\ UNCHANGED <<fileCache, htmlCache>>
       \/ which = "file" /\ fileCache' = Purge(fileCache, now)
          /\ fileCache' # fileCache /\ UNCHANGED <<statCache, htmlCache>>
       \/ which = "html" /\ htmlCache' = Purge(htmlCache, now)
          /\ htmlCache' # htmlCache /\ UNCHANGED <<statCache, fileCache>>
    /\ UNCHANGED <<opts, fs, pc, mode, routes, now, req, resp, ops, composed, inflight>>

\* the file a.t is removed from the asset tree
Unlink ==
    /\ pc = "ready"
    /\ F_a \in DOMAIN fs
    /\ fs' = Remove(fs, F_a)
    /\ UNCHANGED <<opts, pc, mode, routes, statCache, fileCache, htmlCache, now,
                   req, resp, ops, composed, inflight>>

NextClock ==
    \/ StaticPlugin
    \/ \E rest \in ClockUrlRests, v \in ClockValidators : DispatchWildcard(1, rest, v)
    \/ HandleWildcard
    \/ Deliver
    \/ Tick
    \/ \E which \in {"stat", "file", "html"} : Sweep(which)
    \/ Unlink

SpecClock == InitClock /\ [][NextClock]_vars

(***************************************************************************)
(* The candidate path on either platform: lines 299-312 as a function of   *)
(* the options, the request URL and path.sep, the separator of the         *)
(* platform ("/" on POSIX, the backslash on win32).                        *)
(***************************************************************************)
WIN32_SEP == "\\"
Separators == {SEP, WIN32_SEP}

\* lines 307-309: path.replace(URL_PATH_SEP, sep) when sep is not "/"
SepSafe(path, s) ==
    IF path.ok /\ s # URL_PATH_SEP
    THEN [ok |-> TRUE, s |-> ReplaceFirst(path.s, <<URL_PATH_SEP>>, <<s>>)]
    ELSE path
CandidatePathOn(o, url, s) == SepSafe(CandidatePath(o, url), s)

\* lines 299-312: the candidate path of a request and the outcome of the
\* ignore check on it
Checked(o, s, url, path) ==
    [sep |-> s, url |-> url, path |-> path,
     ignored |-> path.ok /\ shouldIgnore(o, path.s)]
Derived(o, s, url) == Checked(o, s, url, CandidatePathOn(o, url, s))

SepScenarios ==
    {Scenario([DefaultOpts EXCEPT !.prefix = pre, !.assets = a,
                                  !.enableDecodeURI = dec], FSBase) :
        pre \in Prefixes, a \in {<<"p">>, P_root}, dec \in BOOLEAN}

\* URL paths of one, two and three segments below the prefix
SepUrlRests ==
    {<<"/", "a", ".", "t">>, <<"/", "h">>, <<"/", "h", "/">> \o INDEX_HTML,
     <<"/", "d", "/", "h", "/", "z">>, <<"/", "%", "6", "1", ".", "t">>}

InitSep ==
    /\ \E sc \in SepScenarios : opts = sc.opts /\ fs = sc.fs
    /\ pc = "init"
    /\ mode = "none"
    /\ routes = <<>>
    /\ statCache = EmptyCache
    /\ fileCache = EmptyCache
    /\ htmlCache = EmptyCache
    /\ now = 0
    /\ req = NoRequest
    /\ resp = NoResponse
    /\ ops = <<>>
    /\ composed = <<>>
    /\ inflight = <<>>

\* the wildcard handler derives the candidate path of a request on a
\* platform whose separator is s
Derive(s, rest) ==
    /\ pc = "ready"
    /\ mode = "dynamic"
    /\ Len(inflight) < MaxDerived
    /\ inflight' = Append(inflight, Derived(opts, s, NormPrefix(opts) \o rest))
    /\ UNCHANGED <<opts, fs, pc, mode, routes, statCache, fileCache, htmlCache,
                   now, req, resp, ops, composed>>

\* the oldest derivation is dropped
Forget ==
    /\ pc = "ready"
    /\ inflight # <<>>
    /\ inflight' = Tail(inflight)
    /\ UNCHANGED <<opts, fs, pc, mode, routes, statCache, fileCache, htmlCache,
                   now, req, resp, ops, composed>>

NextSep ==
    \/ StaticPlugin
    \/ \E s \in Separators, rest \in SepUrlRests : Derive(s, rest)
    \/ Forget

SpecSep == InitSep /\ [][NextSep]_vars

(***************************************************************************)
(* Composition: the host calls staticPlugin several times under one prefix *)
(* and spreads the returned lists into one collection, as the test "should *)
(* supports multiple public" does with [...routes1, ...routes2].           *)
(***************************************************************************)
\* one more call, for the asset root a; its routes are appended to the
\* collection, which starts as the routes of the first call
Spread(soFar, built) == IF built.ok THEN soFar \o built.routes ELSE soFar
Compose(a) ==
    /\ pc = "ready"
    /\ Len(composed) < MaxComposed
    /\ composed' = Spread(IF composed = <<>> THEN routes ELSE composed,
                          BuildRoutes([opts EXCEPT !.assets = a], fs))
    /\ UNCHANGED <<opts, fs, pc, mode, routes, statCache, fileCache, htmlCache, now,
                   req, resp, ops, inflight>>

NextCompose ==
    \/ StaticPlugin
    \/ \E a \in Assets : Compose(a)

SpecCompose == Init /\ [][NextCompose]_vars

(***************************************************************************)
(* What the claims speak about, stated without the code under test.        *)
(***************************************************************************)
Responded == pc = "responded"
Built == pc \in {"ready", "handling", "responded"}
Requested == routes[req.route]

\* an ignore rule as the documentation states it: a string rule matches a
\* path that contains it, a pattern rule a path it tests true on
RuleMatches(rule, path) ==
    IF rule.kind = "string" THEN Includes(path, rule.text)
    ELSE EndsWith(path, rule.text)

Excluded(o, path) ==
    \E i \in 1..Len(o.ignorePatterns) : RuleMatches(o.ignorePatterns[i], path)

\* the asset files: the regular files below the assets root
AssetFiles(o, fsys) ==
    {p \in DOMAIN fsys :
        ~fsys[p].isDir /\ StartsWithAt(p, Resolve(o.assets) \o <<SEP>>, 1)}

\* the file a URL of the wildcard route names: the file at the candidate
\* path, or the index.html directly under it when the candidate path is a
\* directory and indexHTML is on; <<>> when there is none
UrlFile(o, fsys, url) ==
    LET cand == CandidatePath(o, url)
        index == cand.s \o <<SEP>> \o INDEX_HTML
    IN  IF ~cand.ok \/ ~Lookup(fsys, cand.s).ok THEN <<>>
        ELSE IF ~Lookup(fsys, cand.s).isDir THEN Resolve(cand.s)
        ELSE IF o.indexHTML /\ Lookup(fsys, index).ok /\ ~Lookup(fsys, index).isDir
        THEN Resolve(index)
        ELSE <<>>

\* the file the answered request is for, in either mode
Target ==
    IF Requested.kind = "wildcard" THEN UrlFile(opts, fs, req.url)
    ELSE Requested.absolutePath

\* the candidate path of the answered request is not excluded
TargetVisible ==
    IF Requested.kind = "wildcard"
    THEN ~Excluded(opts, CandidatePath(opts, req.url).s)
    ELSE ~Excluded(opts, Requested.absolutePath)

Servable == Target # <<>> /\ fs[Target].readable /\ TargetVisible
CurrentETag == <<"md5", fs[Target].data>>

(***************************************************************************)
(* The claims.                                                             *)
(***************************************************************************)
NoValidators == req.inm = NONE /\ req.ims = NONE

\* C1: in static mode every asset file that no ignore rule matches has a GET
\* route, and the handler of a file's route answers a plain request with
\* status 200 and exactly the file's bytes.
C1_EveryVisibleFileIsServed ==
    /\ (Built /\ mode = "static") =>
          \A f \in AssetFiles(opts, fs) :
             ~Excluded(opts, f) =>
                \E i \in 1..Len(routes) :
                   routes[i].method = "GET" /\ routes[i].absolutePath = f
    /\ (Responded /\ mode = "static" /\ NoValidators) =>
          /\ resp.status = "200"
          /\ resp.body = fs[Requested.absolutePath].data

\* C2: a file that an ignore rule matches (a string rule contained in its
\* path, a pattern rule testing true on it) has no static route, and in
\* dynamic mode a request for it is answered NotFound, with noCache on or off.
C2_ExcludedFilesAreHidden ==
    /\ (Built /\ mode = "static") =>
          \A i \in 1..Len(routes) : ~Excluded(opts, routes[i].absolutePath)
    /\ (Responded /\ mode = "dynamic" /\ Target # <<>> /\ ~TargetVisible) =>
          resp.status = "NotFound"

\* C3: with caching enabled, in both modes, a request for a file whose
\* If-None-Match equals the file's current ETag is answered 304 with an empty
\* body; one with no validator, or with only an If-None-Match that differs
\* from the current ETag, is answered 200 with the file's bytes and an Etag
\* header equal to the current ETag.
C3_ConditionalByETag ==
    (Responded /\ ~opts.noCache /\ Servable) =>
        /\ req.inm = CurrentETag => (resp.status = "304" /\ resp.body = "")
        /\ (req.inm # CurrentETag /\ req.ims = NONE) =>
              /\ resp.status = "200"
              /\ resp.body = fs[Target].data
              /\ resp.headers["Etag"] = CurrentETag

\* C4: a request with If-Modified-Since and no matching If-None-Match is
\* answered 304 exactly when that time is at or after the mtime of the file
\* served (the index.html for a directory or an alias route), on the static
\* file route, the static alias route and the wildcard route alike.
C4_ModifiedSinceUsesServedFile ==
    (Responded /\ ~opts.noCache /\ Servable /\ req.ims # NONE /\ req.inm # CurrentETag) =>
        (resp.status = "304" <=> req.ims[1] >= fs[Target].mtime)

\* C5: with noCache set, every successful response, in static and in dynamic
\* mode and whatever validators the request carries, has status 200 and not
\* 304, carries the configured headers only (no Etag or Cache-Control of the
\* plugin's making), and the conditional evaluator was not called.
C5_NoCacheNeverConditional ==
    (Responded /\ opts.noCache /\ resp.status \in {"200", "304"}) =>
        /\ resp.status = "200"
        /\ resp.headers = opts.headers
        /\ \A i \in 1..Len(ops) : ops[i] # "isCached"

\* a noCache response to a request with both validators for the directory h,
\* which caching would answer 304
C5_Witness ==
    /\ Responded /\ opts.noCache /\ mode = "dynamic"
    /\ req.inm = <<"md5", "H">> /\ req.ims = <<3>>
    /\ resp.status = "200" /\ resp.body = "H"

\* C6: the wildcard handler ends every request with 200 and a body, with 304,
\* or with NotFound; no other error reaches the dispatcher.
C6_OnlyThreeOutcomes ==
    (Responded /\ mode = "dynamic") =>
        /\ resp.status \in {"200", "304", "NotFound"}
        /\ resp.status = "200" => resp.body # ""

\* C7: whatever the three caches hold, the wildcard handler answers with the
\* status and body that a handler with empty caches gives on the same
\* filesystem and options; a readable, visible regular file is answered 200
\* with its bytes after any sequence of earlier requests.
Uncached == WildcardHandler(opts, fs, req, EmptyCache, EmptyCache, EmptyCache, now).resp
C7_CachesAreAdvisory ==
    (Responded /\ mode = "dynamic") =>
        /\ resp.status = Uncached.status
        /\ resp.body = Uncached.body

\* C8: a wildcard request whose candidate path is a directory is answered 200
\* only if indexHTML is on and the directory holds an index.html, and then
\* with that file's bytes; with indexHTML off, or without an index.html, it
\* is answered NotFound.
RequestedDir ==
    LET cand == CandidatePath(opts, req.url)
    IN  IF cand.ok /\ Lookup(fs, cand.s).ok /\ Lookup(fs, cand.s).isDir
        THEN Resolve(cand.s) ELSE <<>>
HasIndex(dir) ==
    (dir \o <<SEP>> \o INDEX_HTML) \in DOMAIN fs
        /\ ~fs[dir \o <<SEP>> \o INDEX_HTML].isDir
C8_DirectoryNeedsIndex ==
    (Responded /\ mode = "dynamic" /\ RequestedDir # <<>>) =>
        /\ resp.status = "200" =>
              /\ opts.indexHTML
              /\ HasIndex(RequestedDir)
              /\ resp.body = fs[RequestedDir \o <<SEP>> \o INDEX_HTML].data
        /\ (~opts.indexHTML \/ ~HasIndex(RequestedDir)) => resp.status = "NotFound"

\* the directory h is answered with the bytes of h/index.html after the
\* directory d, which has no index.html, was answered NotFound
C8_Witness ==
    /\ Responded /\ mode = "dynamic" /\ RequestedDir = D_h
    /\ resp.status = "200" /\ resp.body = "H"
    /\ \E k \in DOMAIN statCache : Resolve(k) = D_d

C10_OneWildcardRoute ==
    (Built /\ mode = "dynamic") =>
        /\ Len(routes) = 1
        /\ routes[1].method = "GET"
        /\ routes[1].path =
              (IF opts.prefix = <<"/">> THEN <<>> ELSE opts.prefix) \o <<"/", "*">>

\* the prefix "/" gives the route "/*"
C10_Witness ==
    /\ Built /\ mode = "dynamic" /\ opts.prefix = <<"/">>
    /\ routes = <<Route("wildcard", <<"/", "*">>, NONE, NONE, NONE)>>

\* C11: however many times staticPlugin is called in dynamic mode under one
\* prefix, the collection composed of the returned lists holds at most one
\* GET route at "<prefix>/*".
C11_NoDuplicateWildcard ==
    \A i, j \in 1..Len(composed) :
        (/\ composed[i].method = "GET" /\ composed[j].method = "GET"
         /\ composed[i].path = WildcardPath(opts)
         /\ composed[j].path = WildcardPath(opts)) => i = j

\* C12: with caching enabled every 200 response, in static and in dynamic
\* mode, carries a Cache-Control header that is the directive alone when
\* maxAge is null, and the directive followed by ", max-age=<n>" when maxAge
\* is the number n, 0 included.
C12_CacheControlExact ==
    (Responded /\ ~opts.noCache /\ resp.status = "200") =>
        /\ "Cache-Control" \in DOMAIN resp.headers
        /\ opts.maxAge = <<>> => resp.headers["Cache-Control"] = <<opts.directive>>
        /\ opts.maxAge # <<>> =>
              resp.headers["Cache-Control"] =
                 <<opts.directive, ", max-age=", opts.maxAge[1]>>

\* a static route answers 200 with "public, max-age=0"
C12_Witness ==
    /\ Responded /\ mode = "static" /\ resp.status = "200"
    /\ opts.maxAge = <<0>>
    /\ resp.headers["Cache-Control"] = <<"public", ", max-age=", 0>>

\* the path of a file relative to the assets root, and its URL path under
\* the prefix
RelativeToRoot(o, f) == Slice(f, Len(Resolve(o.assets)) + 1, Len(f))
UrlPrefix(o) == IF o.prefix = <<"/">> THEN <<>> ELSE o.prefix
FileRouteAt(i) == routes[i].kind = "file"

\* C13: in static mode with indexHTML on, every file whose URL path ends
\* with "/index.html" has a second GET route at that path without the
\* trailing "/index.html", which answers every request with the status,
\* headers and body the first route answers it with; with indexHTML off
\* there is no second route.
TrailingIndexRemoved(path) == Slice(path, 1, Len(path) - Len(INDEX_HTML) - 1)
C13_AliasEqualsFileRoute ==
    /\ (Built /\ mode = "static" /\ opts.indexHTML) =>
          \A i \in 1..Len(routes) :
             (FileRouteAt(i) /\ EndsWith(routes[i].path, <<"/">> \o INDEX_HTML)) =>
                \E j \in 1..Len(routes) :
                   /\ j # i
                   /\ routes[j].method = "GET"
                   /\ routes[j].path = TrailingIndexRemoved(routes[i].path)
                   /\ routes[j].absolutePath = routes[i].absolutePath
    /\ (Built /\ mode = "static" /\ ~opts.indexHTML) =>
          \A i \in 1..Len(routes) : FileRouteAt(i)
    /\ (Responded /\ mode = "static" /\ Requested.kind = "alias") =>
          \E i \in 1..Len(routes) :
             /\ FileRouteAt(i)
             /\ routes[i].absolutePath = Requested.absolutePath
             /\ resp = StaticHandler(opts, fs, routes[i], req).resp

\* C14: in static mode the URL path of every route of a file is the prefix
\* followed by the file's path relative to the assets root, whichever way
\* the assets option spells that root (relative, "./"-prefixed, absolute).
C14_UrlPathIsPrefixPlusRelative ==
    (Built /\ mode = "static" /\ ~opts.noExtension) =>
        \A i \in 1..Len(routes) :
           FileRouteAt(i) =>
              routes[i].path = UrlPrefix(opts) \o RelativeToRoot(opts, routes[i].absolutePath)

\* the last "." of a file name and what follows it, a leading "." apart
Dots(name) == {k \in 2..Len(name) : name[k] = "."}
ExtensionLength(name) ==
    IF Dots(name) = {} THEN 0
    ELSE Len(name) - (CHOOSE k \in Dots(name) : \A j \in Dots(name) : j <= k) + 1
WithoutExtension(path) == Slice(path, 1, Len(path) - ExtensionLength(LastSegment(path)))

\* C15: with noExtension in static mode the URL path of a file's route is
\* the file's URL path without the final ".ext" of the file name (a name
\* without extension stays, dots in directory names stay), and the handler
\* reads the file at its full filesystem path.
C15_OnlyFinalExtensionStripped ==
    /\ (Built /\ mode = "static" /\ opts.noExtension) =>
          \A i \in 1..Len(routes) :
             FileRouteAt(i) =>
                routes[i].path =
                   UrlPrefix(opts)
                     \o WithoutExtension(RelativeToRoot(opts, routes[i].absolutePath))
    /\ (Responded /\ mode = "static" /\ opts.noExtension /\ NoValidators
          /\ Requested.kind = "file") =>
          resp.body = fs[Requested.absolutePath].data

\* C16: every 304 response, in static and in dynamic mode, has an empty body
\* and exactly the configured headers: no Etag and no Cache-Control is added.
C16_NotModifiedIsBare ==
    (Responded /\ resp.status = "304") =>
        /\ resp.body = ""
        /\ resp.headers = opts.headers
        /\ "Etag" \notin DOMAIN resp.headers
        /\ "Cache-Control" \notin DOMAIN resp.headers

\* the wildcard route answers 304 with the configured X-Custom-Header alone
C16_Witness ==
    /\ Responded /\ mode = "dynamic" /\ resp.status = "304"
    /\ req.inm = <<"md5", "A">>
    /\ opts.headers = XHeaders /\ resp.headers = XHeaders

\* what a sequential execution leaves in the caches for key k
SequentialStat(k) == Stat(fs, k)
SequentialFile(k) == IF Stat(fs, k).isDir THEN k \o <<SEP>> \o INDEX_HTML ELSE k

\* C17: however the concurrent invocations of the wildcard handler
\* interleave on a fixed filesystem, each returns what it returns when run
\* alone, and once all have finished every cache entry is one that a
\* sequential execution writes.
C17_ConcurrentAsAlone ==
    /\ \A i \in 1..Len(inflight) :
          inflight[i].at = "done" => inflight[i].out = inflight[i].alone
    /\ inflight = <<>> =>
          /\ \A k \in DOMAIN statCache : statCache[k].v = SequentialStat(k)
          /\ \A k \in DOMAIN fileCache : fileCache[k].v = SequentialFile(k)
          /\ \A k \in DOMAIN htmlCache : htmlCache[k].v = <<fileExists(fs, k)>>

\* C18: in every reachable state, after any sequence of requests, each of
\* the three caches holds at most maxKeys keys.
C18_CachesBounded ==
    /\ Cardinality(DOMAIN statCache) <= MaxKeys
    /\ Cardinality(DOMAIN fileCache) <= MaxKeys
    /\ Cardinality(DOMAIN htmlCache) <= MaxKeys

\* the stat cache is full and the handler has just taken the stat of a path
\* that is not in it
C18_Witness ==
    /\ Responded /\ mode = "dynamic"
    /\ Cardinality(DOMAIN statCache) = MaxKeys
    /\ Cardinality(DOMAIN fileCache) = MaxKeys
    /\ CandidatePath(opts, req.url).s \notin DOMAIN statCache
    /\ ops = <<"stat">>

\* C19: staticPlugin returns the complete route list or fails as a whole.
\* When the assets root does not exist the call fails, in either mode; when
\* the ETag of a file to be routed cannot be computed the call fails; a
\* failed call returns no routes, and a returned static list has a route,
\* with its ETag, for every file the loop does not skip.
RootExists == Resolve(opts.assets) \in DOMAIN fs /\ fs[Resolve(opts.assets)].isDir
Failed == pc = "failed"
C19_AllOrNothing ==
    /\ (pc # "init" /\ ~RootExists) => Failed
    /\ Failed => (routes = <<>> /\ mode = "none")
    /\ (Built /\ mode = "static") =>
          \A f \in AssetFiles(opts, fs) :
             ~shouldIgnore(opts, f) =>
                /\ fs[f].readable
                /\ \E i \in 1..Len(routes) :
                      /\ routes[i].absolutePath = f
                      /\ routes[i].etag = <<"md5", fs[f].data>>

\* the call fails in static mode because the ETag of u.t cannot be
\* computed, after the routes of the files before it were built
C19_Witness ==
    /\ Failed /\ RootExists /\ opts.alwaysStatic
    /\ fs = FSUnreadable /\ ~shouldIgnore(opts, F_u)
    /\ routes = <<>>

\* C20: when the wildcard handler, resolving a directory, has asked the
\* filesystem whether "<dir>/index.html" exists, the index-existence cache
\* holds the answer under that key: true when found, false when absent.
AskedIndex == CandidatePath(opts, req.url).s \o <<SEP>> \o INDEX_HTML
C20_IndexFlagCached ==
    (Responded /\ mode = "dynamic" /\ \E i \in 1..Len(ops) : ops[i] = "fileExists") =>
        /\ AskedIndex \in DOMAIN htmlCache
        /\ htmlCache[AskedIndex].v = <<fileExists(fs, AskedIndex)>>

\* C21: in dynamic mode no 200 response carries the content of a file whose
\* path an ignore rule matches, be the file requested by its own path,
\* reached as the index.html of a requested directory, or named by a path
\* that matches only once percent-decoded.
C21_IgnoredContentNeverServed ==
    (Responded /\ mode = "dynamic" /\ resp.status = "200") =>
        \A f \in AssetFiles(opts, fs) : Excluded(opts, f) => resp.body # fs[f].data

\* a step of the wildcard handler, seen from the state it starts in
HandlerStep == pc = "handling" /\ pc' = "responded" /\ mode = "dynamic"
Cand == CandidatePath(opts, req.url)
PastIgnoreCheck == Cand.ok /\ ~shouldIgnore(opts, Cand.s)
Live(c, k) == k \in DOMAIN c /\ c[k].t >= now
Count(calls, name) == Cardinality({i \in 1..Len(calls) : calls[i] = name})

\* C22: on a stat-cache hit for the candidate path within the entry's TTL
\* the wildcard handler takes no stat of that path; on a miss it takes the
\* stat exactly once and stores the result under the candidate path before
\* it goes on.
C22_StatOnceAndStored ==
    [][(HandlerStep /\ PastIgnoreCheck) =>
          /\ Live(statCache, Cand.s) => Count(ops', "stat") = 0
          /\ ~Live(statCache, Cand.s) =>
                /\ Count(ops', "stat") = 1
                /\ Stat(fs, Cand.s).ok =>
                      /\ Cand.s \in DOMAIN statCache'
                      /\ statCache'[Cand.s] =
                            [v |-> Stat(fs, Cand.s), t |-> now + stdTTL]]_vars

Expired(c, k) == k \in DOMAIN c /\ c[k].t < now
Fresh(c, k, v) == k \in DOMAIN c /\ c[k] = [v |-> v, t |-> now + stdTTL]
\* the handler got as far as fileCache.get (line 324)
ReachesFileCache ==
    /\ Cand.s \in DOMAIN statCache'
    /\ ~(~opts.indexHTML /\ statCache'[Cand.s].v.isDir)
IndexOfCand == Cand.s \o <<SEP>> \o INDEX_HTML

\* C23: a cache entry is never used once its TTL has elapsed.  The first
\* request for the key after expiry is treated as a miss: an expired stat
\* entry makes the handler stat the path again and store the new result with
\* a new expiry (or drop the entry when the path is gone); an expired
\* resolved-path entry makes it resolve the path again (with an existence
\* check of index.html for a directory) and store the result with a new
\* expiry; no entry of the requested key is left expired.
C23_ExpiredEntryRefreshed ==
    [][(HandlerStep /\ PastIgnoreCheck) =>
          /\ Expired(statCache, Cand.s) =>
                /\ Count(ops', "stat") = 1
                /\ IF Stat(fs, Cand.s).ok
                   THEN Fresh(statCache', Cand.s, Stat(fs, Cand.s))
                   ELSE Cand.s \notin DOMAIN statCache'
          /\ (Expired(fileCache, Cand.s) /\ ReachesFileCache) =>
                IF statCache'[Cand.s].v.isDir
                THEN /\ ~Live(htmlCache, IndexOfCand) => Count(ops', "fileExists") = 1
                     /\ \/ Fresh(fileCache', Cand.s, IndexOfCand)
                        \/ Cand.s \notin DOMAIN fileCache' /\ resp'.status = "NotFound"
                ELSE Fresh(fileCache', Cand.s, Cand.s)]_vars
\* the handler is entered, more than a TTL after the entries were set, for a
\* path whose stat entry and resolved-path entry have both expired
C23_Witness ==
    /\ pc = "handling" /\ mode = "dynamic" /\ PastIgnoreCheck
    /\ Expired(statCache, Cand.s) /\ Expired(fileCache, Cand.s)
    /\ Stat(fs, Cand.s).ok

\* the positions of a call in the handler's sequence of calls
Positions(calls, name) == {i \in 1..Len(calls) : calls[i] = name}

Pipeline == <<"stat", "fileExists", "generateETag", "isCached", "readFile">>
Stage(name) == CHOOSE i \in 1..Len(Pipeline) : Pipeline[i] = name

C26_EverySeparatorConverted ==
    \A i \in 1..Len(inflight) :
        (inflight[i].sep # URL_PATH_SEP /\ inflight[i].path.ok) =>
            ~Includes(inflight[i].path.s, <<URL_PATH_SEP>>)

\* what the same call makes of the answered request in static mode: the
\* routes it builds with alwaysStatic set, and the answer of the route whose
\* path is the URL, or NotFound when no route has that path
InStaticMode == BuildRoutes([opts EXCEPT !.alwaysStatic = TRUE], fs)
RouteOf(list, url) == Least({i \in 1..Len(list) : list[i].path = url})
StaticAnswerAt(built, i) ==
    IF ~built.ok THEN Thrown("Error")
    ELSE IF i = 0 THEN NotFoundError
    ELSE StaticHandler(opts, fs, built.routes[i], req).resp
StaticAnswer == StaticAnswerAt(InStaticMode, RouteOf(InStaticMode.routes, req.url))

\* C27: with the same assets root, prefix, ignore rules and indexHTML
\* setting, and noExtension off, the two modes answer alike: the URL of a
\* file or of a directory that holds an index.html gets the same status and
\* the same body from the wildcard handler as from the static routes.
C27_ModesAnswerAlike ==
    (Responded /\ mode = "dynamic" /\ ~opts.noExtension /\ Target # <<>>) =>
        /\ resp.status = StaticAnswer.status
        /\ resp.body = StaticAnswer.body

\* C28: the route list one static-mode call returns holds no two routes
\* with the same method and path, whatever the files and whatever
\* noExtension and indexHTML are.
C28_RoutePathsDistinct ==
    (Built /\ mode = "static") =>
        \A i, j \in 1..Len(routes) :
            (routes[i].method = routes[j].method /\ routes[i].path = routes[j].path)
                => i = j

\* a handler step that ends in NotFound at the ignore check or at the stat of
\* the candidate path
RejectedOrMissing ==
    /\ HandlerStep /\ Cand.ok
    /\ \/ shouldIgnore(opts, Cand.s)
       \/ ~Live(statCache, Cand.s) /\ ~Stat(fs, Cand.s).ok

\* C29 as stated: a request that ends in NotFound because an ignore rule
\* matched or because the stat of the candidate path failed leaves the three
\* caches unchanged.
C29_CachesUnchanged ==
    [][RejectedOrMissing => UNCHANGED <<statCache, fileCache, htmlCache>>]_vars

\* C29 amended: such a request ends in NotFound and stores nothing: the
\* resolved-path cache and the index cache are unchanged, and the stat cache
\* is unchanged but for the entry of the candidate path, which is dropped
\* when the request passed the ignore check and found the entry expired.
C29_NothingStored ==
    [][RejectedOrMissing =>
          /\ resp'.status = "NotFound"
          /\ UNCHANGED <<fileCache, htmlCache>>
          /\ statCache' =
                IF ~shouldIgnore(opts, Cand.s) /\ Expired(statCache, Cand.s)
                THEN Remove(statCache, Cand.s)
                ELSE statCache]_vars
\* a.t was served, its entries expired, the file was removed and the next
\* request for it failed at the stat
C29_Witness ==
    /\ Responded /\ mode = "dynamic" /\ resp.status = "NotFound"
    /\ ops = <<"stat">>
    /\ Resolve(Cand.s) = F_a /\ F_a \notin DOMAIN fs
    /\ Cand.s \notin DOMAIN statCache
    /\ Expired(fileCache, Cand.s)

\* the entries of the resolved-path cache written by a step
Written == {k \in DOMAIN fileCache' : k \notin DOMAIN fileCache \/ fileCache'[k] # fileCache[k]}

\* C30: every entry of the resolved-path cache maps a candidate path p to p
\* itself or to p/index.html, the latter only with indexHTML on; and when an
\* entry is written its key has an entry in the stat cache, the result of a
\* successful stat, stored no later than the entry itself.
C30_ResolvedPathEntries ==
    [][/\ \A k \in DOMAIN fileCache' :
             \/ fileCache'[k].v = k
             \/ fileCache'[k].v = k \o <<SEP>> \o INDEX_HTML /\ opts.indexHTML
       /\ \A k \in Written :
             /\ k \in DOMAIN statCache'
             /\ statCache'[k].v.ok
             /\ statCache'[k].t <= fileCache'[k].t]_vars
C30_Witness ==
    /\ Responded /\ mode = "dynamic" /\ opts.indexHTML /\ now > 0
    /\ Cand.s \in DOMAIN fileCache /\ Cand.s \in DOMAIN statCache
    /\ fileCache[Cand.s] = [v |-> IndexOfCand, t |-> now + stdTTL]
    /\ statCache[Cand.s].t < fileCache[Cand.s].t

====
